---- MODULE Spec2Model ----
(***************************************************************************)
(* The deal pipeline board (KanbanBoard) of ProBrosCRMApp, with the        *)
(* Dashboard state it reports to.  The board keeps the deals in React      *)
(* state; a drag-end applies a status change optimistically, issues the    *)
(* remote PATCH and, at the resolution of that call, either notifies the   *)
(* dashboard or writes back the array its closure captured.                *)
(*                                                                         *)
(* One action is one run of JavaScript between two suspension points: the  *)
(* synchronous part of a handler, or the continuation of an await.         *)
(***************************************************************************)
EXTENDS Integers, Sequences, FiniteSets, TLC

\* ------------------------------------------------------------------ bounds
\* Deal ids the remote hands out are 1..MaxDeals.
MaxDeals == 2
\* Only the first NumStatuses columns of COLUMNS are used by the remote data
\* and as drop targets.
NumStatuses == 2
\* Drag-ends that reach the remote call, over a whole behaviour.
MaxMoves == 2
\* Calls of fetchDeals over a whole behaviour (the one on mount included).
MaxFetches == 2
\* Drag-ends that reach the remote call in a behaviour of the board with all
\* eight columns in use (SpecBoard).
MaxBoardMoves == 1
\* Commissions the remote holds: their ids are 1..MaxCommissions.
MaxCommissions == 2
\* Runs of handleApprove over a whole behaviour.
MaxApprovals == 2
\* Runs of fetchData over a whole behaviour (the one on mount included).
MaxDataFetches == 2

\* --------------------------------------------------------------- constants
COLUMNS ==
    << "lead", "contacted", "qualified", "quotes_sent", "trial_order",
       "active_customer", "retained_growing", "lost_customer" >>

DealStatus == { COLUMNS[i] : i \in 1..Len(COLUMNS) }

\* STATUS_COLORS with the entry of the last column left out.
STATUS_COLORS_NoLostCustomer(s) ==
    CASE s = "lead"             -> "#3b82f6"
      [] s = "contacted"        -> "#8b5cf6"
      [] s = "qualified"        -> "#6366f1"
      [] s = "quotes_sent"      -> "#eab308"
      [] s = "trial_order"      -> "#f97316"
      [] s = "active_customer"  -> "#10b981"
      [] s = "retained_growing" -> "#22c55e"
      [] OTHER                  -> "undefined"

\* STATUS_COLORS[s]; "undefined" for a key the table does not hold.
STATUS_COLORS(s) ==
    CASE s = "lead"             -> "#3b82f6"
      [] s = "contacted"        -> "#8b5cf6"
      [] s = "qualified"        -> "#6366f1"
      [] s = "quotes_sent"      -> "#eab308"
      [] s = "trial_order"      -> "#f97316"
      [] s = "active_customer"  -> "#10b981"
      [] s = "retained_growing" -> "#22c55e"
      [] s = "lost_customer"    -> "#ef4444"
      [] OTHER                  -> "undefined"

\* The value of an absent optional field (Deal.color is `color?: string`).
Undefined == "undefined"
\* A value that may be null is a sequence: empty for null, else of its parts.
Null == << >>
\* The value of parseInt on a string that holds no number.
NaN == -1

\* a || b of JavaScript, for strings.
OrElse(a, b) == IF a = Undefined \/ a = "" THEN b ELSE a

\* The statuses and ids the bounded model draws its data from.
Statuses == { COLUMNS[i] : i \in 1..NumStatuses }
DealIds == 1..MaxDeals

\* ------------------------------------------------------------------- state
VARIABLES
    deals,                \* KanbanBoard: useState<Deal[]>([])
    loading,              \* KanbanBoard: useState(true)
    error,                \* KanbanBoard: useState<string | null>(null)
    updating,             \* KanbanBoard: useState<number | null>(null)
    drag,                 \* the drag in progress: what the DropResult will carry
    moves,                \* the runs of handleDragEnd awaiting api.patch, in the
                          \* order they were issued; a run that has ended is kept
                          \* while a run for the same deal is still awaiting
    movesIssued,          \* runs of handleDragEnd that reached api.patch so far
    succeeded,            \* calls of api.patch that resolved so far
    timers,               \* pending setTimeout(() => setError(null), 3000)
    fetching,             \* the calls of fetchDeals awaiting api.get
    fetchesIssued,        \* calls of fetchDeals so far
    storeAtIssue,         \* for each call of fetchDeals awaiting api.get, the
                          \* deals of the render that issued it
    dealsCount,           \* Dashboard: useState(0)
    refreshTrigger,       \* Dashboard: useState(0)
    statsRefreshTrigger,  \* Dashboard: useState(0)
    notifications,        \* invocations of onStatsRefresh so far
    lastDrop,             \* where the latest run of handleDragEnd left off
    mounted,              \* whether the Dashboard, and the board in it, is
                          \* mounted: React drops a state update of a component
                          \* that is not
    statsFetches,         \* CommissionWidget: runs of its effect (fetchStats)
    remote,               \* the status the remote holds for each deal id,
                          \* followed from the first load until the board
                          \* issues another fetch (<< >> when not followed)
    newestResponse        \* the response of the latest-issued call of
                          \* fetchDeals that has resolved, with that call's
                          \* number; followed until the first move (id -1 from
                          \* then on, id 0 before any response)

\* CommissionManagement (another page: it is mounted when the board is not)
VARIABLES
    commissions,          \* useState<Commission[]>([])
    summary,              \* useState<CommissionSummary | null>(null)
    commissionsLoading,   \* its useState(true) `loading`
    commissionsError,     \* its useState<string | null>(null) `error`
    approvingId,          \* useState<number | null>(null)
    approvals,            \* the runs of handleApprove awaiting a call
    approvalsIssued,      \* runs of handleApprove so far
    dataFetches,          \* the runs of fetchData awaiting Promise.all
    dataFetchesIssued,    \* runs of fetchData so far
    commissionTimers,     \* pending setTimeout(() => setError(null), 3000)
    remoteCommissions     \* the status the remote holds for each commission

commissionVars ==
    << commissions, summary, commissionsLoading, commissionsError,
       approvingId, approvals, approvalsIssued, dataFetches,
       dataFetchesIssued, commissionTimers, remoteCommissions >>

boardVars ==
    << deals, loading, error, updating, drag, moves, movesIssued, succeeded,
       timers, fetching, fetchesIssued, dealsCount, refreshTrigger,
       statsRefreshTrigger, notifications, lastDrop, storeAtIssue, mounted, statsFetches, remote,
       newestResponse >>

vars == << boardVars, commissionVars >>

\* ----------------------------------------------------------------- helpers
\* String(n) of a non-negative integer: its decimal digits.
RECURSIVE String(_)
String(n) ==
    IF n < 10 THEN << n >> ELSE Append(String(n \div 10), n % 10)

\* parseInt(s, 10) of a string of decimal digits.
RECURSIVE parseInt(_)
parseInt(s) ==
    IF Len(s) = 0 THEN NaN
    ELSE IF Len(s) = 1 THEN s[1]
    ELSE 10 * parseInt(SubSeq(s, 1, Len(s) - 1)) + s[Len(s)]

\* findIndex with a missing id clamped to the first entry of a store that
\* has one (as Math.max(0, ...) around it would do).
findIndex_ClampsToFirst(ds, dealId) ==
    IF \E i \in 1..Len(ds) : ds[i].id = dealId
    THEN (CHOOSE i \in 1..Len(ds) :
              /\ ds[i].id = dealId
              /\ \A j \in 1..(i - 1) : ds[j].id # dealId) - 1
    ELSE IF Len(ds) > 0 THEN 0 ELSE -1

\* ds.findIndex((d) => d.id === dealId): 0-based, -1 when there is none.
findIndex(ds, dealId) ==
    IF \E i \in 1..Len(ds) : ds[i].id = dealId
    THEN (CHOOSE i \in 1..Len(ds) :
              /\ ds[i].id = dealId
              /\ \A j \in 1..(i - 1) : ds[j].id # dealId) - 1
    ELSE -1

\* The entries of ds with the given id: none when the id is absent.
findById(ds, dealId) == SelectSeq(ds, LAMBDA d : d.id = dealId)

\* deals.filter((deal) => deal.status === col.id)
dealsByStatus(ds, col) == SelectSeq(ds, LAMBDA d : d.status = col)

\* The columns with a key only for the statuses some deal has (a group-by
\* over the deals in place of the reduce over COLUMNS).
renderedColumns_GroupBy(ds) ==
    SelectSeq([ i \in 1..Len(COLUMNS) |->
                  [ id |-> COLUMNS[i], deals |-> dealsByStatus(ds, COLUMNS[i]) ] ],
              LAMBDA col : col.deals # << >>)

\* The columns the board renders: COLUMNS.reduce sets one key per column, in
\* column order, to the deals of that status; COLUMNS.map hands each list to
\* its KanbanColumn.
renderedColumns(ds) ==
    [ i \in 1..Len(COLUMNS) |->
        [ id |-> COLUMNS[i], deals |-> dealsByStatus(ds, COLUMNS[i]) ] ]

\* The `index` KanbanColumn gives the card of ds[i]: its place in its column.
CardIndex(ds, i) ==
    Cardinality({ j \in 1..(i - 1) : ds[j].status = ds[i].status })

\* The title of deal i, standing for the fields of a Deal the board only
\* reads (title, value, company, owner, contact); the remote does not edit
\* them.
TitleOf(i) == << "deal", i >>

\* The collections GET /deals can answer with: each id at most once, any
\* order, any status; the remote sends the color of every record ("sent",
\* the color it derives from the status) or of none.
RECURSIVE FetchedOfLen(_)
FetchedOfLen(n) ==
    IF n = 0 THEN { << >> }
    ELSE { Append(ds, [id |-> i, title |-> TitleOf(i), status |-> s,
                       color |-> c]) :
             ds \in FetchedOfLen(n - 1), i \in DealIds, s \in Statuses,
             c \in {"sent", Undefined} }

NormalizeSent(ds) ==
    [ k \in 1..Len(ds) |->
        [ ds[k] EXCEPT !.color =
            IF @ = "sent" THEN STATUS_COLORS(ds[k].status) ELSE @ ] ]

Fetched ==
    { NormalizeSent(ds) :
        ds \in { x \in UNION { FetchedOfLen(n) : n \in 0..MaxDeals } :
                   /\ \A a, b \in 1..Len(x) : a # b => x[a].id # x[b].id
                   /\ \A a, b \in 1..Len(x) : x[a].color = x[b].color } }

NoDrag ==
    [ draggableId |-> << >>, source |-> [droppableId |-> "", index |-> -1] ]
\* The destination of a drop outside every column (null in the DropResult).
NoDestination == [droppableId |-> "null", index |-> -1]

\* The statuses the remote holds when GET /deals answers with ds.
RemoteOf(ds) ==
    [ i \in DealIds |->
        IF \E j \in 1..Len(ds) : ds[j].id = i
        THEN (CHOOSE d \in { ds[j] : j \in 1..Len(ds) } : d.id = i).status
        ELSE "none" ]

\* The remote after PATCH /deals/{dealId} {status} has succeeded.
RemotePatched(dealId, status) ==
    IF remote = << >> THEN << >> ELSE [ remote EXCEPT ![dealId] = status ]

\* The page of the commissions is not mounted: its state is the one of
\* useState's initial values and nothing of it is in flight.
CommissionsAbsent ==
    /\ commissions = << >>
    /\ summary = Null
    /\ commissionsLoading = TRUE
    /\ commissionsError = Null
    /\ approvingId = Null
    /\ approvals = << >>
    /\ approvalsIssued = 0
    /\ dataFetches = << >>
    /\ dataFetchesIssued = 0
    /\ commissionTimers = 0
    /\ remoteCommissions = << >>

\* -------------------------------------------------------------------- Init
\* The state after the first render and its effect: fetchDeals is awaiting
\* api.get and the board shows the loader.
Init ==
    /\ deals = << >>
    /\ loading = TRUE
    /\ error = Null
    /\ updating = Null
    /\ drag = NoDrag
    /\ moves = << >>
    /\ movesIssued = 0
    /\ succeeded = 0
    /\ timers = 0
    /\ fetching = {1}
    /\ fetchesIssued = 1
    /\ storeAtIssue = [ f \in 1..MaxFetches |-> << >> ]
    /\ dealsCount = 0
    /\ refreshTrigger = 0
    /\ statsRefreshTrigger = 0
    /\ notifications = 0
    /\ lastDrop = "none"
    /\ mounted = TRUE
    /\ statsFetches = 1
    /\ remote = << >>
    /\ newestResponse = [id |-> 0, data |-> << >>]
    /\ CommissionsAbsent

\* The runs ms, with those for the deals in ids marked: something else has
\* written, or may have written, the store entry of their deal since they
\* applied their update.
Disturbed(ms, ids) ==
    [ j \in 1..Len(ms) |->
        IF ms[j].dealId \in ids THEN [ ms[j] EXCEPT !.disturbed = TRUE ]
        ELSE ms[j] ]

\* ------------------------------------------------------------- fetchDeals
\* The synchronous part of fetchDeals: setError(null), then api.get is issued.
fetchDeals ==
    /\ fetchesIssued < MaxFetches
    /\ error' = Null
    /\ fetchesIssued' = fetchesIssued + 1
    /\ fetching' = fetching \cup {fetchesIssued + 1}
    /\ storeAtIssue' = [ storeAtIssue EXCEPT ![fetchesIssued + 1] = deals ]
    /\ remote' = << >>

\* FetchResolved with a merge in place of setDeals(dealsData): the entry of a
\* deal whose move awaits its call keeps its optimistic status and color.
FetchResolved_KeepsOptimistic(f, dealsData) ==
    /\ f \in fetching
    /\ fetching' = fetching \ {f}
    /\ storeAtIssue' = [ storeAtIssue EXCEPT ![f] = << >> ]
    /\ deals' = [ i \in 1..Len(dealsData) |->
                    IF \E j \in 1..Len(deals) :
                          /\ deals[j].id = dealsData[i].id
                          /\ \E k \in 1..Len(moves) :
                                /\ moves[k].phase = "pending"
                                /\ moves[k].dealId = deals[j].id
                    THEN CHOOSE d \in { deals[j] : j \in 1..Len(deals) } :
                            d.id = dealsData[i].id
                    ELSE dealsData[i] ]
    /\ dealsCount' = Len(dealsData)
    /\ loading' = FALSE
    /\ remote' = IF fetchesIssued = 1 THEN RemoteOf(dealsData) ELSE << >>
    /\ newestResponse' =
          IF newestResponse.id >= 0 /\ f > newestResponse.id
          THEN [id |-> f, data |-> dealsData]
          ELSE newestResponse
    /\ moves' = Disturbed(moves, DealIds)
    /\ UNCHANGED << error, updating, drag, movesIssued, succeeded, timers,
                    fetchesIssued, refreshTrigger, statsRefreshTrigger,
                    notifications,
                    lastDrop, mounted, statsFetches >>
    /\ UNCHANGED commissionVars

\* api.get resolved for call f with dealsData: setDeals, onDealsCountChange,
\* and the finally block.
FetchResolved(f, dealsData) ==
    /\ f \in fetching
    /\ fetching' = fetching \ {f}
    /\ storeAtIssue' = [ storeAtIssue EXCEPT ![f] = << >> ]
    /\ deals' = dealsData
    /\ dealsCount' = Len(dealsData)
    /\ loading' = FALSE
    /\ remote' = IF fetchesIssued = 1 THEN RemoteOf(dealsData) ELSE << >>
    /\ newestResponse' =
          IF newestResponse.id >= 0 /\ f > newestResponse.id
          THEN [id |-> f, data |-> dealsData]
          ELSE newestResponse
    /\ moves' = Disturbed(moves, DealIds)
    /\ UNCHANGED << error, updating, drag, movesIssued, succeeded, timers,
                    fetchesIssued, refreshTrigger, statsRefreshTrigger,
                    notifications,
                    lastDrop, mounted, statsFetches >>
    /\ UNCHANGED commissionVars

\* FetchRejected with a catch block that also empties the store
\* (setDeals([]) before setError).
FetchRejected_EmptiesStore(f) ==
    /\ f \in fetching
    /\ fetching' = fetching \ {f}
    /\ storeAtIssue' = [ storeAtIssue EXCEPT ![f] = << >> ]
    /\ deals' = << >>
    /\ error' = << "Failed to load deals. Please try again." >>
    /\ loading' = FALSE
    /\ UNCHANGED << updating, drag, moves, movesIssued, succeeded,
                    timers, fetchesIssued, dealsCount, refreshTrigger,
                    statsRefreshTrigger, notifications,
                    lastDrop, mounted, statsFetches, remote, newestResponse >>
    /\ UNCHANGED commissionVars

\* api.get rejected for call f: the catch block and the finally block.
FetchRejected(f) ==
    /\ f \in fetching
    /\ fetching' = fetching \ {f}
    /\ storeAtIssue' = [ storeAtIssue EXCEPT ![f] = << >> ]
    /\ error' = << "Failed to load deals. Please try again." >>
    /\ loading' = FALSE
    /\ UNCHANGED << deals, updating, drag, moves, movesIssued, succeeded,
                    timers, fetchesIssued, dealsCount, refreshTrigger,
                    statsRefreshTrigger, notifications,
                    lastDrop, mounted, statsFetches, remote, newestResponse >>
    /\ UNCHANGED commissionVars

\* The Retry button of the error banner: onClick={fetchDeals}.
Retry ==
    /\ ~loading
    /\ error # Null
    /\ fetchDeals
    /\ UNCHANGED << deals, loading, updating, drag, moves, movesIssued,
                    succeeded, timers, dealsCount, refreshTrigger,
                    statsRefreshTrigger, notifications,
                    lastDrop, mounted, statsFetches, newestResponse >>
    /\ UNCHANGED commissionVars

\* handleDealCreated with a refreshAll that bumps the board's trigger only.
handleDealCreated_BoardOnly ==
    /\ refreshTrigger' = refreshTrigger + 1
    /\ fetchDeals
    /\ UNCHANGED << deals, loading, updating, drag, moves, movesIssued,
                    succeeded, timers, dealsCount, notifications,
                    lastDrop, mounted, statsRefreshTrigger, statsFetches,
                    newestResponse >>
    /\ UNCHANGED commissionVars

\* Dashboard.handleDealCreated: refreshAll bumps both triggers; the board's
\* effect on refreshTrigger then calls fetchDeals.
handleDealCreated ==
    /\ refreshTrigger' = refreshTrigger + 1
    /\ statsRefreshTrigger' = statsRefreshTrigger + 1
    /\ statsFetches' = statsFetches + 1
    /\ fetchDeals
    /\ UNCHANGED << deals, loading, updating, drag, moves, movesIssued,
                    succeeded, timers, dealsCount, notifications,
                    lastDrop, mounted, newestResponse >>
    /\ UNCHANGED commissionVars

\* ------------------------------------------------------------ drag and drop
\* A card is picked up: the library fixes draggableId and source from the
\* Draggable and Droppable the card is rendered in.
DragStart(i) ==
    /\ ~loading
    /\ lastDrop' = "none"
    /\ drag = NoDrag
    /\ i \in 1..Len(deals)
    /\ drag' = [ draggableId |-> String(deals[i].id),
                 source |-> [ droppableId |-> deals[i].status,
                              index |-> CardIndex(deals, i) ] ]
    /\ UNCHANGED << deals, loading, error, updating, moves, movesIssued,
                    succeeded, timers, fetching, fetchesIssued, dealsCount,
                    refreshTrigger, statsRefreshTrigger, notifications,
                    storeAtIssue, mounted, statsFetches, remote,
                    newestResponse >>
    /\ UNCHANGED commissionVars

\* The destinations a drop can report: none (dropped outside every column),
\* or a column and a place among the other cards of that column.
Destinations ==
    {NoDestination} \cup
    { [droppableId |-> c, index |-> k] : c \in Statuses, k \in 0..MaxDeals }

OthersInColumn(c) ==
    Cardinality({ j \in 1..Len(deals) :
                    /\ deals[j].status = c
                    /\ String(deals[j].id) # drag.draggableId })

\* destination.droppableId === source.droppableId &&
\* destination.index === source.index
SameSpot(destination, source) ==
    /\ destination.droppableId = source.droppableId
    /\ destination.index = source.index

\* updatedDeals with the new entry built from id, status and color alone
\* (no `...originalDeal`).
updatedDeals_NoSpread(ds, dealIndex, newStatus) ==
    [ ds EXCEPT ![dealIndex + 1] =
        [ id |-> @.id, title |-> << >>, status |-> newStatus,
          color |-> OrElse(STATUS_COLORS(newStatus), @.color) ] ]

\* updatedDeals: a copy of deals with the entry at dealIndex given the new
\* status and its color.
updatedDeals(ds, dealIndex, newStatus) ==
    [ ds EXCEPT ![dealIndex + 1] =
        [ @ EXCEPT !.status = newStatus,
                   !.color = OrElse(STATUS_COLORS(newStatus), @) ] ]

\* rolledBackDeals with originalDeal pushed onto the copy in place of being
\* assigned at dealIndex.
rolledBackDeals_Pushes(m) == Append(m.deals, m.originalDeal)

\* rolledBackDeals: a copy of the deals the handler's closure holds with the
\* entry at dealIndex set to originalDeal.
rolledBackDeals(m) ==
    [ m.deals EXCEPT ![m.dealIndex + 1] = m.originalDeal ]

\* The same calls with api.patch issued before the optimistic update.
IssueTrace_PatchFirst == << "patch", "setDeals", "setUpdating" >>

\* The calls a run of handleDragEnd makes up to its await, in program order.
IssueTrace == << "setDeals", "setUpdating", "patch" >>

\* ReturnPoint with the destination check left out (and destination read
\* with `?.`), so that a drop outside every column runs on.
ReturnPoint_NoDestinationCheck(destination) ==
    IF SameSpot(destination, drag.source) THEN "sameSpot"
    ELSE IF findIndex(deals, parseInt(drag.draggableId)) = -1 THEN "notFound"
    ELSE "await"

\* ReturnPoint with one more early return: a drop onto a column that comes
\* before the source column in COLUMNS is refused.
ReturnPoint_ForwardOnly(destination) ==
    LET Place(c) == IF c \in DealStatus
                    THEN CHOOSE i \in 1..Len(COLUMNS) : COLUMNS[i] = c
                    ELSE 0
    IN  IF destination = NoDestination THEN "noDestination"
        ELSE IF SameSpot(destination, drag.source) THEN "sameSpot"
        ELSE IF Place(destination.droppableId) < Place(drag.source.droppableId)
             THEN "backward"
        ELSE IF findIndex(deals, parseInt(drag.draggableId)) = -1
             THEN "notFound"
        ELSE "await"

\* Where this run of handleDragEnd leaves off: at one of its three early
\* returns, or at `await api.patch(...)`.
ReturnPoint(destination) ==
    IF destination = NoDestination THEN "noDestination"
    ELSE IF SameSpot(destination, drag.source) THEN "sameSpot"
    ELSE IF findIndex(deals, parseInt(drag.draggableId)) = -1 THEN "notFound"
    ELSE "await"

\* Whether this run of handleDragEnd returns before the optimistic update.
Returns(destination) == ReturnPoint(destination) # "await"

\* handleDragEnd up to `await api.patch(...)`.
handleDragEnd(destination) ==
    /\ drag # NoDrag
    /\ drag' = NoDrag
    /\ lastDrop' = ReturnPoint(destination)
    /\ IF Returns(destination)
       THEN UNCHANGED << deals, updating, moves, movesIssued,
                         newestResponse >>
       ELSE LET dealId == parseInt(drag.draggableId)
                newStatus == destination.droppableId
                oldStatus == drag.source.droppableId
                dealIndex == findIndex(deals, dealId)
                originalDeal == deals[dealIndex + 1]
            IN  /\ movesIssued < MaxMoves
                /\ movesIssued' = movesIssued + 1
                /\ deals' = updatedDeals(deals, dealIndex, newStatus)
                /\ newestResponse' = [id |-> -1, data |-> << >>]
                /\ updating' = << dealId >>
                /\ moves' = Append(Disturbed(moves, {dealId}),
                      [ dealId |-> dealId, dealIndex |-> dealIndex,
                        newStatus |-> newStatus, oldStatus |-> oldStatus,
                        deals |-> deals, originalDeal |-> originalDeal,
                        phase |-> "pending", disturbed |-> FALSE,
                        trace |-> IssueTrace ])
    /\ UNCHANGED << loading, error, succeeded, timers, fetching,
                    fetchesIssued, dealsCount, refreshTrigger,
                    statsRefreshTrigger, notifications, storeAtIssue, mounted, statsFetches,
                    remote >>
    /\ UNCHANGED commissionVars

\* The runs of handleDragEnd still of interest once run k has ended in
\* `phase`: the closure of k is released, and an ended run stays only while a
\* run for the same deal is awaiting its call.
Ended(k, phase, events) ==
    LET ms == [ Disturbed(moves, {moves[k].dealId}) EXCEPT
                    ![k].phase = phase,
                    ![k].deals = << >>,
                    ![k].trace = @ \o events ]
        Awaited(m) ==
            \E j \in 1..Len(ms) :
                ms[j].phase = "pending" /\ ms[j].dealId = m.dealId
    IN  SelectSeq(ms, Awaited)

\* Dashboard.handleStatsRefresh, the board's onStatsRefresh.
handleStatsRefresh ==
    /\ statsRefreshTrigger' = statsRefreshTrigger + 1
    /\ statsFetches' = statsFetches + 1
    /\ notifications' = notifications + 1

\* api.patch resolved for move k: onStatsRefresh, then the finally block.
PatchResolved(k) ==
    /\ k \in 1..Len(moves)
    /\ moves[k].phase = "pending"
    /\ handleStatsRefresh
    /\ updating' = Null
    /\ succeeded' = succeeded + 1
    /\ remote' = RemotePatched(moves[k].dealId, moves[k].newStatus)
    /\ moves' = Ended(k, "committed",
                       << "resolved", "onStatsRefresh", "setUpdating" >>)
    /\ UNCHANGED << deals, loading, error, drag, movesIssued, timers,
                    fetching, fetchesIssued, dealsCount, refreshTrigger,
                    lastDrop, storeAtIssue, mounted, newestResponse >>
    /\ UNCHANGED commissionVars

\* The message the catch block sets.
MoveError(m) == << "Failed to move deal. Reverted to ", m.oldStatus, "." >>

\* PatchRejected with onStatsRefresh called in the finally block, so on a
\* rejection too.
PatchRejected_NotifiesToo(k) ==
    /\ k \in 1..Len(moves)
    /\ moves[k].phase = "pending"
    /\ deals' = rolledBackDeals(moves[k])
    /\ error' = MoveError(moves[k])
    /\ timers' = timers + 1
    /\ handleStatsRefresh
    /\ updating' = Null
    /\ moves' = Ended(k, "rolledBack",
                       << "rejected", "setDeals", "setError", "setTimeout",
                          "setUpdating", "onStatsRefresh" >>)
    /\ UNCHANGED << loading, drag, movesIssued, succeeded, fetching,
                    fetchesIssued, dealsCount, refreshTrigger, lastDrop,
                    storeAtIssue, mounted, remote, newestResponse >>
    /\ UNCHANGED commissionVars

\* api.patch rejected for move k: the catch block (rollback, error, timer),
\* then the finally block.
PatchRejected(k) ==
    /\ k \in 1..Len(moves)
    /\ moves[k].phase = "pending"
    /\ deals' = rolledBackDeals(moves[k])
    /\ error' = MoveError(moves[k])
    /\ timers' = timers + 1
    /\ updating' = Null
    /\ moves' = Ended(k, "rolledBack",
                       << "rejected", "setDeals", "setError", "setTimeout",
                          "setUpdating" >>)
    /\ UNCHANGED << loading, drag, movesIssued, succeeded, fetching,
                    fetchesIssued, dealsCount, refreshTrigger,
                    statsRefreshTrigger, notifications,
                    lastDrop, storeAtIssue, mounted, statsFetches, remote,
                    newestResponse >>
    /\ UNCHANGED commissionVars

\* A timer of the catch block fires: setError(null).
TimerFired ==
    /\ timers > 0
    /\ timers' = timers - 1
    /\ error' = Null
    /\ UNCHANGED << deals, loading, updating, drag, moves, movesIssued,
                    succeeded, fetching, fetchesIssued, dealsCount,
                    refreshTrigger, statsRefreshTrigger, notifications,
                    lastDrop, storeAtIssue, mounted, statsFetches, remote,
                    newestResponse >>
    /\ UNCHANGED commissionVars

\* -------------------------------------------------------------------- Next
Next ==
    \/ \E f \in fetching, dealsData \in Fetched : FetchResolved(f, dealsData)
    \/ \E f \in fetching : FetchRejected(f)
    \/ Retry
    \/ handleDealCreated
    \/ \E i \in 1..MaxDeals : DragStart(i)
    \/ \E destination \in Destinations :
          /\ destination # NoDestination =>
                destination.index <= OthersInColumn(destination.droppableId)
          /\ handleDragEnd(destination)
    \/ \E k \in 1..MaxMoves : PatchResolved(k)
    \/ \E k \in 1..MaxMoves : PatchRejected(k)
    \/ TimerFired

Spec == Init /\ [][Next]_vars

\* -------------------------------------------------- the board, all columns
\* The same board once its first fetch has resolved, with deals in any of the
\* eight columns and drops onto any of them; no further fetch is made.
RECURSIVE LoadedOfLen(_)
LoadedOfLen(n) ==
    IF n = 0 THEN { << >> }
    ELSE { Append(ds, [id |-> i, title |-> TitleOf(i), status |-> s,
                       color |-> c]) :
             ds \in LoadedOfLen(n - 1), i \in DealIds, s \in DealStatus,
             c \in {"sent", Undefined} }

Loaded ==
    { NormalizeSent(ds) :
        ds \in { x \in UNION { LoadedOfLen(n) : n \in 0..MaxDeals } :
                   /\ \A a, b \in 1..Len(x) : a # b => x[a].id # x[b].id
                   /\ \A a, b \in 1..Len(x) : x[a].color = x[b].color } }

BoardInit ==
    /\ deals \in Loaded
    /\ loading = FALSE
    /\ error = Null
    /\ updating = Null
    /\ drag = NoDrag
    /\ moves = << >>
    /\ movesIssued = 0
    /\ succeeded = 0
    /\ timers = 0
    /\ fetching = {}
    /\ fetchesIssued = 1
    /\ storeAtIssue = [ f \in 1..MaxFetches |-> << >> ]
    /\ dealsCount = Len(deals)
    /\ refreshTrigger = 0
    /\ statsRefreshTrigger = 0
    /\ notifications = 0
    /\ lastDrop = "none"
    /\ mounted = TRUE
    /\ statsFetches = 1
    /\ remote = RemoteOf(deals)
    /\ newestResponse = [id |-> 1, data |-> deals]
    /\ CommissionsAbsent

AllDestinations ==
    {NoDestination} \cup
    { [droppableId |-> c, index |-> k] : c \in DealStatus, k \in 0..MaxDeals }

BoardNext ==
    \/ \E i \in 1..MaxDeals : DragStart(i)
    \/ \E destination \in AllDestinations :
          /\ destination # NoDestination =>
                destination.index <= OthersInColumn(destination.droppableId)
          /\ ~Returns(destination) => movesIssued < MaxBoardMoves
          /\ handleDragEnd(destination)
    \/ \E k \in 1..MaxMoves : PatchResolved(k)
    \/ \E k \in 1..MaxMoves : PatchRejected(k)
    \/ TimerFired

SpecBoard == BoardInit /\ [][BoardNext]_vars

\* ------------------------------------------------------------- the teardown
\* The route changes: the Dashboard and the board in it are unmounted.  A
\* drag in progress ends with them; the calls in flight and the timers stay.
Unmount ==
    /\ mounted
    /\ mounted' = FALSE
    /\ drag' = NoDrag
    /\ UNCHANGED << deals, loading, error, updating, moves, movesIssued,
                    succeeded, timers, fetching, fetchesIssued, dealsCount,
                    refreshTrigger, statsRefreshTrigger, notifications,
                    lastDrop, storeAtIssue, statsFetches, remote,
                    newestResponse >>
    /\ UNCHANGED commissionVars

\* api.patch resolved for move k after the unmount: the same continuation
\* runs; onStatsRefresh is called, and React drops the state updates (of the
\* Dashboard in handleStatsRefresh, of the board in the finally block).
PatchResolvedUnmounted(k) ==
    /\ ~mounted
    /\ k \in 1..Len(moves)
    /\ moves[k].phase = "pending"
    /\ notifications' = notifications + 1
    /\ succeeded' = succeeded + 1
    /\ remote' = RemotePatched(moves[k].dealId, moves[k].newStatus)
    /\ moves' = Ended(k, "committed",
                       << "resolved", "onStatsRefresh", "setUpdating" >>)
    /\ UNCHANGED << deals, loading, error, updating, drag, movesIssued,
                    timers, fetching, fetchesIssued, dealsCount,
                    refreshTrigger, statsRefreshTrigger, lastDrop,
                    storeAtIssue, mounted, statsFetches, newestResponse >>
    /\ UNCHANGED commissionVars

\* api.patch rejected for move k after the unmount: the catch block runs;
\* React drops setDeals, setError and setUpdating, and the timer is set.
PatchRejectedUnmounted(k) ==
    /\ ~mounted
    /\ k \in 1..Len(moves)
    /\ moves[k].phase = "pending"
    /\ timers' = timers + 1
    /\ moves' = Ended(k, "rolledBack",
                       << "rejected", "setDeals", "setError", "setTimeout",
                          "setUpdating" >>)
    /\ UNCHANGED << deals, loading, error, updating, drag, movesIssued,
                    succeeded, fetching, fetchesIssued, dealsCount,
                    refreshTrigger, statsRefreshTrigger, notifications,
                    lastDrop, storeAtIssue, mounted, statsFetches, remote,
                    newestResponse >>
    /\ UNCHANGED commissionVars

\* A timer of the catch block fires after the unmount: React drops
\* setError(null).
TimerFiredUnmounted ==
    /\ ~mounted
    /\ timers > 0
    /\ timers' = timers - 1
    /\ UNCHANGED << deals, loading, error, updating, drag, moves,
                    movesIssued, succeeded, fetching, fetchesIssued,
                    dealsCount, refreshTrigger, statsRefreshTrigger,
                    notifications, lastDrop, storeAtIssue, mounted, statsFetches,
                    remote, newestResponse >>
    /\ UNCHANGED commissionVars

\* The board with all columns, torn down at any moment.
TeardownNext ==
    \/ mounted /\ BoardNext
    \/ Unmount
    \/ \E k \in 1..MaxMoves : PatchResolvedUnmounted(k)
    \/ \E k \in 1..MaxMoves : PatchRejectedUnmounted(k)
    \/ TimerFiredUnmounted

SpecTeardown == BoardInit /\ [][TeardownNext]_vars

\* ------------------------------------------------ the page of the commissions
\* CommissionManagement, with the remote it talks to.  A response is what the
\* remote held when it answered, which is before the response is delivered.
CommissionIds == 1..MaxCommissions

\* GET /commissions as the remote answers it now.
CommissionsNow ==
    [ i \in CommissionIds |-> [id |-> i, status |-> remoteCommissions[i]] ]

\* GET /commissions/summary as the remote answers it now: the paid ones.
SummaryNow ==
    << Cardinality({ i \in CommissionIds : remoteCommissions[i] = "paid" }) >>

\* The page is opened with the board gone: fetchData is awaiting Promise.all.
CommissionsInit ==
    /\ deals = << >>
    /\ loading = TRUE
    /\ error = Null
    /\ updating = Null
    /\ drag = NoDrag
    /\ moves = << >>
    /\ movesIssued = 0
    /\ succeeded = 0
    /\ timers = 0
    /\ fetching = {}
    /\ fetchesIssued = 0
    /\ storeAtIssue = [ f \in 1..MaxFetches |-> << >> ]
    /\ dealsCount = 0
    /\ refreshTrigger = 0
    /\ statsRefreshTrigger = 0
    /\ notifications = 0
    /\ lastDrop = "none"
    /\ mounted = FALSE
    /\ statsFetches = 0
    /\ remote = << >>
    /\ newestResponse = [id |-> 0, data |-> << >>]
    /\ commissions = << >>
    /\ summary = Null
    /\ commissionsLoading = TRUE
    /\ commissionsError = Null
    /\ approvingId = Null
    /\ approvals = << >>
    /\ approvalsIssued = 0
    /\ dataFetches = << [answered |-> FALSE, data |-> << >>, summary |-> Null] >>
    /\ dataFetchesIssued = 1
    /\ commissionTimers = 0
    /\ remoteCommissions \in [ CommissionIds -> {"pending", "paid"} ]

\* s without its k-th element.
Without(s, k) == SubSeq(s, 1, k - 1) \o SubSeq(s, k + 1, Len(s))

\* fetchData up to its await (the Refresh button, the Retry of the banner).
fetchData ==
    /\ dataFetchesIssued < MaxDataFetches
    /\ dataFetchesIssued' = dataFetchesIssued + 1
    /\ commissionsError' = Null
    /\ dataFetches' = Append(dataFetches,
          [answered |-> FALSE, data |-> << >>, summary |-> Null])
    /\ UNCHANGED << commissions, summary, commissionsLoading, approvingId,
                    approvals, approvalsIssued, commissionTimers,
                    remoteCommissions >>
    /\ UNCHANGED boardVars

\* The remote answers the two GETs of run f of fetchData.
RemoteAnswersFetch(f) ==
    /\ f \in 1..Len(dataFetches)
    /\ ~dataFetches[f].answered
    /\ dataFetches' = [ dataFetches EXCEPT ![f] =
          [answered |-> TRUE, data |-> CommissionsNow, summary |-> SummaryNow] ]
    /\ UNCHANGED << commissions, summary, commissionsLoading,
                    commissionsError, approvingId, approvals,
                    approvalsIssued, dataFetchesIssued, commissionTimers,
                    remoteCommissions >>
    /\ UNCHANGED boardVars

\* Promise.all resolved for run f: setCommissions, setSummary, finally.
FetchDataResolved(f) ==
    /\ f \in 1..Len(dataFetches)
    /\ dataFetches[f].answered
    /\ commissions' = dataFetches[f].data
    /\ summary' = dataFetches[f].summary
    /\ commissionsLoading' = FALSE
    /\ dataFetches' = Without(dataFetches, f)
    /\ UNCHANGED << commissionsError, approvingId, approvals,
                    approvalsIssued, dataFetchesIssued, commissionTimers,
                    remoteCommissions >>
    /\ UNCHANGED boardVars

\* Promise.all rejected for run f: the catch block and the finally block.
FetchDataRejected(f) ==
    /\ f \in 1..Len(dataFetches)
    /\ commissionsError' = << "Failed to load commissions." >>
    /\ commissionsLoading' = FALSE
    /\ dataFetches' = Without(dataFetches, f)
    /\ UNCHANGED << commissions, summary, approvingId, approvals,
                    approvalsIssued, dataFetchesIssued, commissionTimers,
                    remoteCommissions >>
    /\ UNCHANGED boardVars

\* handleApprove(id) up to `await api.patch(...)`: the "Approve & Pay" button
\* of a row shown as pending, enabled unless approvingId is that row's id.
handleApprove(id) ==
    /\ ~commissionsLoading
    /\ approvalsIssued < MaxApprovals
    /\ \E i \in 1..Len(commissions) :
          commissions[i].id = id /\ commissions[i].status = "pending"
    /\ approvingId # << id >>
    /\ approvingId' = << id >>
    /\ approvalsIssued' = approvalsIssued + 1
    /\ approvals' = Append(approvals,
          [id |-> id, call |-> "pay", answer |-> Null])
    /\ UNCHANGED << commissions, summary, commissionsLoading,
                    commissionsError, dataFetches, dataFetchesIssued,
                    commissionTimers, remoteCommissions >>
    /\ UNCHANGED boardVars

\* The remote answers the call run a is awaiting: it marks the commission
\* paid (PATCH /commissions/{id}/pay) or reads the totals (GET summary).
RemoteAnswersApproval(a) ==
    /\ a \in 1..Len(approvals)
    /\ approvals[a].answer = Null
    /\ IF approvals[a].call = "pay"
       THEN /\ remoteCommissions' =
                  [ remoteCommissions EXCEPT ![approvals[a].id] = "paid" ]
            /\ approvals' = [ approvals EXCEPT ![a].answer = << "ok" >> ]
       ELSE /\ approvals' = [ approvals EXCEPT ![a].answer = SummaryNow ]
            /\ UNCHANGED remoteCommissions
    /\ UNCHANGED << commissions, summary, commissionsLoading,
                    commissionsError, approvingId, approvalsIssued,
                    dataFetches, dataFetchesIssued, commissionTimers >>
    /\ UNCHANGED boardVars

\* prev.map((c) => (c.id === id ? { ...c, status: 'paid' } : c))
markPaid(prev, id) ==
    [ i \in 1..Len(prev) |->
        IF prev[i].id = id THEN [ prev[i] EXCEPT !.status = "paid" ]
        ELSE prev[i] ]

\* api.patch resolved for run a: setCommissions, then the summary is asked.
PayResolved(a) ==
    /\ a \in 1..Len(approvals)
    /\ approvals[a].call = "pay"
    /\ approvals[a].answer # Null
    /\ commissions' = markPaid(commissions, approvals[a].id)
    /\ approvals' = [ approvals EXCEPT ![a].call = "summary",
                                       ![a].answer = Null ]
    /\ UNCHANGED << summary, commissionsLoading, commissionsError,
                    approvingId, approvalsIssued, dataFetches,
                    dataFetchesIssued, commissionTimers, remoteCommissions >>
    /\ UNCHANGED boardVars

\* The message the catch block of handleApprove sets.
ApproveError == << "Failed to approve commission. Please try again." >>

\* A call of run a is rejected (the pay call or the summary call): the catch
\* block (error, timer), then the finally block.
ApproveRejected(a) ==
    /\ a \in 1..Len(approvals)
    /\ commissionsError' = ApproveError
    /\ commissionTimers' = commissionTimers + 1
    /\ approvingId' = Null
    /\ approvals' = Without(approvals, a)
    /\ UNCHANGED << commissions, summary, commissionsLoading,
                    approvalsIssued, dataFetches, dataFetchesIssued,
                    remoteCommissions >>
    /\ UNCHANGED boardVars

\* The summary call of run a resolved: setSummary, then the finally block.
SummaryResolved(a) ==
    /\ a \in 1..Len(approvals)
    /\ approvals[a].call = "summary"
    /\ approvals[a].answer # Null
    /\ summary' = approvals[a].answer
    /\ approvingId' = Null
    /\ approvals' = Without(approvals, a)
    /\ UNCHANGED << commissions, commissionsLoading, commissionsError,
                    approvalsIssued, dataFetches, dataFetchesIssued,
                    commissionTimers, remoteCommissions >>
    /\ UNCHANGED boardVars

\* A timer of handleApprove's catch block fires: setError(null).
CommissionTimerFired ==
    /\ commissionTimers > 0
    /\ commissionTimers' = commissionTimers - 1
    /\ commissionsError' = Null
    /\ UNCHANGED << commissions, summary, commissionsLoading, approvingId,
                    approvals, approvalsIssued, dataFetches,
                    dataFetchesIssued, remoteCommissions >>
    /\ UNCHANGED boardVars

CommissionsNext ==
    \/ fetchData
    \/ \E f \in 1..MaxDataFetches : RemoteAnswersFetch(f)
    \/ \E f \in 1..MaxDataFetches : FetchDataResolved(f)
    \/ \E f \in 1..MaxDataFetches : FetchDataRejected(f)
    \/ \E id \in CommissionIds : handleApprove(id)
    \/ \E a \in 1..MaxApprovals : RemoteAnswersApproval(a)
    \/ \E a \in 1..MaxApprovals : PayResolved(a)
    \/ \E a \in 1..MaxApprovals : ApproveRejected(a)
    \/ \E a \in 1..MaxApprovals : SummaryResolved(a)
    \/ CommissionTimerFired

SpecCommissions == CommissionsInit /\ [][CommissionsNext]_vars

\* ------------------------------------------------------------------ claims
\* What the claims call colorFor: the Pipeline Status Map.
colorFor(status) == STATUS_COLORS(status)

\* The deal a drag in progress is about.
DraggedId == parseInt(drag.draggableId)

\* Whether run k is awaiting its call.
Pending(ms, k) == k \in 1..Len(ms) /\ ms[k].phase = "pending"

PendingCount(ms) == Cardinality({ k \in 1..Len(ms) : ms[k].phase = "pending" })

\* Run k's call resolves or rejects in this step.
Settles(k) == Pending(moves, k) /\ (PatchResolved(k) \/ PatchRejected(k))

\* A drag-end that gets past the early returns happens in this step.
Accepted(destination) ==
    /\ drag # NoDrag
    /\ ~Returns(destination)
    /\ handleDragEnd(destination)

\* C1: no step of a move of deal A (the optimistic apply, the commit, the
\* rollback) changes the store entry of any other deal B, also when a move of
\* B was applied or confirmed while A's call was awaited.  (Stated for the
\* moves no refetch has crossed.)
C1_Isolation ==
    [][ /\ \A k \in 1..Len(moves) : \A b \in DealIds :
              (Settles(k) /\ ~moves[k].disturbed /\ b # moves[k].dealId)
                  => findById(deals', b) = findById(deals, b)
        /\ \A destination \in Destinations : \A b \in DealIds :
              (Accepted(destination) /\ b # DraggedId)
                  => findById(deals', b) = findById(deals, b) ]_vars

\* C2: when the call of a move of D is rejected, D's entry afterwards is the
\* entry from right before the move was applied, its color is
\* colorFor(that status), and the notifier is not invoked.
C2_RollbackCorrectness ==
    [][ \A k \in 1..Len(moves) :
          (Pending(moves, k) /\ PatchRejected(k))
              => /\ findById(deals', moves[k].dealId) = << moves[k].originalDeal >>
                 /\ \A i \in 1..Len(deals') :
                        deals'[i].id = moves[k].dealId
                            => deals'[i].color = colorFor(moves[k].originalDeal.status)
                 /\ notifications' = notifications ]_vars

\* C3: when the call of a move of D to S resolves, D's status is S (no later
\* move of D and no refetch having intervened) and the notifier is invoked
\* exactly once; and the status of a deal with no move in flight is not
\* changed by the resolution of another deal's move.
C3_CommitCorrectness ==
    [][ /\ \A k \in 1..Len(moves) :
              (Pending(moves, k) /\ ~moves[k].disturbed /\ PatchResolved(k))
                  => /\ \E i \in 1..Len(deals') :
                            /\ deals'[i].id = moves[k].dealId
                            /\ deals'[i].status = moves[k].newStatus
                     /\ notifications' = notifications + 1
        /\ \A k \in 1..Len(moves) : \A d \in DealIds :
              ( /\ Settles(k)
                /\ ~moves[k].disturbed
                /\ d # moves[k].dealId
                /\ \A j \in 1..Len(moves) : moves[j].dealId # d )
                  => \A i \in 1..Len(deals) : \A i2 \in 1..Len(deals') :
                        (deals[i].id = d /\ deals'[i2].id = d)
                            => deals'[i2].status = deals[i].status ]_vars

\* C4: two moves of one deal D overlap and both calls are rejected: once the
\* second rejection is handled, whichever comes second, D's entry is the
\* entry from before the first of the two moves.
C4_ConcurrencyGuard ==
    [][ \A k1 \in 1..Len(moves) : \A k2 \in 1..Len(moves) :
          ( /\ k1 < k2
            /\ moves[k1].dealId = moves[k2].dealId
            /\ \/ (moves[k1].phase = "rolledBack" /\ Pending(moves, k2)
                                                  /\ PatchRejected(k2))
               \/ (moves[k2].phase = "rolledBack" /\ Pending(moves, k1)
                                                  /\ PatchRejected(k1))
            /\ \A j \in 1..Len(moves) :
                  moves[j].dealId = moves[k1].dealId => j \in {k1, k2} )
              => findById(deals', moves[k1].dealId) = << moves[k1].originalDeal >>
      ]_vars

\* C5: a drag-end of a deal D of the store onto the column of D's current
\* status, at any index, leaves the store as it is, issues no remote call and
\* invokes no notifier.
C5_NoOpDrop ==
    [][ \A destination \in Destinations : \A i \in 1..Len(deals) :
          ( /\ drag # NoDrag
            /\ destination # NoDestination
            /\ deals[i].id = DraggedId
            /\ destination.droppableId = deals[i].status
            /\ handleDragEnd(destination) )
              => /\ deals' = deals
                 /\ movesIssued' = movesIssued
                 /\ moves' = moves
                 /\ notifications' = notifications ]_vars

\* C6: while a move of D to S awaits its call and nothing else has happened
\* to D, D's entry has status S and color colorFor(S).
C6_OptimisticVisibility ==
    \A k \in 1..Len(moves) :
        (Pending(moves, k) /\ ~moves[k].disturbed)
            => \E i \in 1..Len(deals) :
                  /\ deals[i].id = moves[k].dealId
                  /\ deals[i].status = moves[k].newStatus
                  /\ deals[i].color = colorFor(moves[k].newStatus)

\* C7: the notifier has been invoked as many times as calls of api.patch
\* have resolved, whatever else has happened (rejections, rollbacks, drops
\* that returned early, fetches).
C7_NotifierAccounting == notifications = succeeded

\* A state where a call has resolved, another has been rejected and rolled
\* back, and a refetch has been issued.
C7_Witness ==
    /\ succeeded >= 1
    /\ movesIssued - succeeded - PendingCount(moves) >= 1
    /\ fetchesIssued >= 2

\* Whether event a comes before event b in trace t, both being in it.
Before(t, a, b) ==
    \E i, j \in 1..Len(t) : i < j /\ t[i] = a /\ t[j] = b

\* C8: in one move the optimistic setDeals comes before the call is issued;
\* the notifier, or the restoring setDeals with its error, comes after the
\* call has settled, and only in a step that settles a call.
C8_Ordering ==
    [][ /\ \A k \in 1..Len(moves') :
              /\ Before(moves'[k].trace, "setDeals", "patch")
              /\ moves'[k].phase = "pending" => moves'[k].trace = IssueTrace
              /\ moves'[k].phase = "committed"
                    => /\ Before(moves'[k].trace, "patch", "resolved")
                       /\ Before(moves'[k].trace, "resolved", "onStatsRefresh")
              /\ moves'[k].phase = "rolledBack"
                    => /\ Before(moves'[k].trace, "patch", "rejected")
                       /\ Before(moves'[k].trace, "rejected", "setError")
        /\ (notifications' # notifications \/ timers' > timers)
              => /\ PendingCount(moves') = PendingCount(moves) - 1
                 /\ movesIssued' = movesIssued
        /\ movesIssued' # movesIssued
              => /\ notifications' = notifications
                 /\ timers' = timers
                 /\ error' = error
                 /\ PendingCount(moves') = PendingCount(moves) + 1 ]_vars

\* A state where one move has ended while another of the same deal still
\* awaits its call.
C8_Witness ==
    \E k1, k2 \in 1..Len(moves) :
        /\ moves[k1].phase \in {"committed", "rolledBack"}
        /\ moves[k2].phase = "pending"

\* C9: a drag-end whose draggableId matches no deal of the store changes
\* nothing but the drag itself: not the store, no call, no notifier, no error.
C9_NotFound ==
    [][ ( /\ drag # NoDrag
          /\ drag' = NoDrag
          /\ findById(deals, DraggedId) = << >> )
            => /\ UNCHANGED << deals, moves, movesIssued, notifications,
                               statsRefreshTrigger, error, timers, updating,
                               loading, dealsCount, fetching >>
               /\ lastDrop' \in {"noDestination", "sameSpot", "notFound"}
      ]_vars

\* The latest drag-end has returned at the not-found check (the deal of the
\* dragged card had left the store during the drag).
C9_Witness ==
    /\ drag = NoDrag
    /\ lastDrop = "notFound"

\* C10: outside an optimistic window (no move awaiting its call), every deal
\* of the store has color colorFor(status).
C10_ColorConsistency ==
    PendingCount(moves) = 0
        => \A i \in 1..Len(deals) : deals[i].color = colorFor(deals[i].status)

\* The sequence of deal ids of a store, in store order.
Ids(ds) == [ i \in 1..Len(ds) |-> ds[i].id ]

\* C11: no step of a move (the optimistic apply, the commit, the rollback)
\* adds or removes a deal: the sequence of deal ids of the store is the same
\* right after the step as right before it, also when a refetch has resolved
\* since the move was applied.
C11_NoAddRemove ==
    [][ /\ \A k \in 1..Len(moves) :
              Settles(k) => Ids(deals') = Ids(deals)
        /\ \A destination \in Destinations :
              Accepted(destination) => Ids(deals') = Ids(deals) ]_vars

\* The message the catch block of fetchDeals sets.
LoadError == << "Failed to load deals. Please try again." >>

\* C12 as stated: when a fetch fails, the store is what it was when that
\* fetch was issued, the error with its Retry button is shown, and the deal
\* count reported to the dashboard is unchanged.
C12_FetchFailureAsIssued ==
    [][ \A f \in fetching :
          FetchRejected(f)
              => /\ deals' = storeAtIssue[f]
                 /\ error' = LoadError /\ ~loading'
                 /\ dealsCount' = dealsCount ]_vars

\* C12 as amended: when a fetch fails, the store is what it was right before
\* the failure was handled (empty when nothing has been loaded yet), the error
\* with its Retry button is shown, and the deal count reported to the
\* dashboard is unchanged.
C12_FetchFailure ==
    [][ \A f \in fetching :
          FetchRejected(f)
              => /\ deals' = deals
                 /\ fetchesIssued = 1 => deals' = << >>
                 /\ error' = LoadError /\ ~loading'
                 /\ dealsCount' = dealsCount ]_vars

\* A refresh has failed over a loaded store while a move awaits its call.
C12_Witness ==
    /\ error = LoadError
    /\ ~loading
    /\ Len(deals) > 0
    /\ PendingCount(moves) > 0
    /\ fetching = {}

\* C13: when a fetch resolves, the store is the fetched collection, in the
\* fetched order: no entry, status or color of the previous store, or of an
\* optimistic write made while the fetch was awaited, is kept; the count
\* reported to the dashboard is that of the fetched collection.
C13_ReplaceAll ==
    [][ \A f \in fetching : \A dealsData \in Fetched :
          FetchResolved(f, dealsData)
              => /\ deals' = dealsData
                 /\ dealsCount' = Len(dealsData) ]_vars

\* A refresh has resolved while the only move so far awaited its call, and
\* the store does not show that move's optimistic status.
C13_Witness ==
    /\ movesIssued = 1
    /\ fetchesIssued = 2
    /\ fetching = {}
    /\ Len(moves) = 1
    /\ moves[1].phase = "pending"
    /\ moves[1].disturbed
    /\ \A i \in 1..Len(deals) :
          deals[i].id = moves[1].dealId => deals[i].status # moves[1].newStatus
    /\ Len(deals) > 0

\* The places <<column, position>> at which the deal with the given id is
\* rendered.
PlacesOf(cols, id) ==
    { pl \in (1..Len(cols)) \X (1..MaxDeals + 1) :
        /\ pl[2] <= Len(cols[pl[1]].deals)
        /\ cols[pl[1]].deals[pl[2]].id = id }

\* C14: the columns rendered for the store are the eight of COLUMNS, in that
\* order, an empty list for a status no deal has; every deal of the store is
\* in exactly one column, the one of its status; and the deals of a column
\* are in the order they have in the store.
C14_Partition ==
    LET cols == renderedColumns(deals)
    IN  /\ Len(cols) = 8
        /\ \A i \in 1..Len(cols) : cols[i].id = COLUMNS[i]
        /\ \A j \in 1..Len(deals) :
              /\ Cardinality(PlacesOf(cols, deals[j].id)) = 1
              /\ \A pl \in PlacesOf(cols, deals[j].id) :
                    /\ cols[pl[1]].id = deals[j].status
                    /\ cols[pl[1]].deals[pl[2]] = deals[j]
        /\ \A i \in 1..Len(cols) :
              /\ \A p \in 1..Len(cols[i].deals) :
                    findIndex(deals, cols[i].deals[p].id) # -1
              /\ \A p, q \in 1..Len(cols[i].deals) :
                    p < q => findIndex(deals, cols[i].deals[p].id)
                               < findIndex(deals, cols[i].deals[q].id)

\* Two deals share a column other than the first two after a move, the
\* other six columns being empty.
C14_Witness ==
    /\ movesIssued = 1
    /\ Len(deals) = 2
    /\ deals[1].status = "lost_customer"
    /\ deals[2].status = "lost_customer"

\* C15: every fetched collection holding each deal id at most once, the store
\* holds each deal id at most once, whatever fetches, moves, commits and
\* rollbacks have happened.
C15_UniqueIds ==
    \A a, b \in 1..Len(deals) : a # b => deals[a].id # deals[b].id

\* A full store after a commit, a rollback and a refetch.
C15_Witness ==
    /\ Len(deals) = MaxDeals
    /\ succeeded >= 1
    /\ movesIssued - succeeded - PendingCount(moves) >= 1
    /\ fetchesIssued >= 2
    /\ fetching = {}

\* C16: a drag-end of a deal of the store from any column to any other
\* column is accepted: the deal's entry gets the destination's status and a
\* remote update is issued with that deal's id and that status.
C16_AnyToAny ==
    [][ \A destination \in AllDestinations :
          ( /\ drag # NoDrag
            /\ destination # NoDestination
            /\ destination.droppableId # drag.source.droppableId
            /\ findById(deals, DraggedId) # << >>
            /\ handleDragEnd(destination) )
              => /\ lastDrop' = "await"
                 /\ \E i \in 1..Len(deals') :
                       /\ deals'[i].id = DraggedId
                       /\ deals'[i].status = destination.droppableId
                 /\ movesIssued' = movesIssued + 1
                 /\ Len(moves') = Len(moves) + 1
                 /\ moves'[Len(moves')].dealId = DraggedId
                 /\ moves'[Len(moves')].newStatus = destination.droppableId
                 /\ moves'[Len(moves')].phase = "pending"
                 /\ moves'[Len(moves')].trace = IssueTrace ]_vars

\* A move from the last column back to the first awaits its call.
C16_Witness ==
    /\ lastDrop = "await"
    /\ Len(moves) = 1
    /\ moves[1].phase = "pending"
    /\ moves[1].oldStatus = "lost_customer"
    /\ moves[1].newStatus = "lead"

\* C17: the color table has a color for each of the eight statuses (lead
\* #3b82f6, qualified #6366f1), so an accepted drag-end writes the color of
\* the destination's status into the moved deal's entry, never the color the
\* entry had before.
C17_ColorTotal ==
    [][ /\ \A s \in DealStatus : STATUS_COLORS(s) \notin {Undefined, ""}
        /\ STATUS_COLORS("lead") = "#3b82f6"
        /\ STATUS_COLORS("qualified") = "#6366f1"
        /\ \A destination \in AllDestinations :
              ( /\ drag # NoDrag
                /\ ReturnPoint(destination) = "await"
                /\ handleDragEnd(destination) )
                  => \E i \in 1..Len(deals') :
                        /\ deals'[i].id = DraggedId
                        /\ deals'[i].color # Undefined
                        /\ deals'[i].color = colorFor(destination.droppableId)
                        /\ destination.droppableId # deals[i].status
                              => deals'[i].color # deals[i].color ]_vars

\* A deal fetched without a color has been dropped onto the last column and
\* shows that column's color while its call is awaited.
C17_Witness ==
    /\ Len(moves) = 1
    /\ moves[1].phase = "pending"
    /\ moves[1].originalDeal.color = Undefined
    /\ moves[1].newStatus = "lost_customer"
    /\ \E i \in 1..Len(deals) :
          /\ deals[i].id = moves[1].dealId
          /\ deals[i].color = "#ef4444"

\* C18: every rejected call sets an error that names the status the deal has
\* right after the rollback, and arms the timer that clears the error with no
\* action of the user (the timer, firing, clears it); the failure leaves the
\* board able to take further drags.
C18_FailureNotification ==
    [][ /\ \A k \in 1..Len(moves) :
              (Pending(moves, k) /\ PatchRejected(k))
                  => /\ \E i \in 1..Len(deals') :
                           /\ deals'[i].id = moves[k].dealId
                           /\ error' = << "Failed to move deal. Reverted to ",
                                          deals'[i].status, "." >>
                     /\ timers' = timers + 1
                     /\ ~loading'
                     /\ drag' = drag
        /\ timers' < timers => error' = Null ]_vars

\* A deal's entry without its status and color.
OtherFields(d) == [ id |-> d.id, title |-> d.title ]

\* C19: the optimistic apply changes the status and the color of the moved
\* deal's entry and nothing else: the entry keeps its id, its other fields
\* and its place in the store, and no other entry changes; the commit leaves
\* the store as it is; the rollback puts the entry from before the move at
\* the place it had before the move.
C19_ShallowMerge ==
    [][ /\ \A destination \in Destinations :
              Accepted(destination)
                  => /\ Len(deals') = Len(deals)
                     /\ \A i \in 1..Len(deals) :
                           /\ OtherFields(deals'[i]) = OtherFields(deals[i])
                           /\ deals'[i] # deals[i] => deals[i].id = DraggedId
                     /\ moves'[Len(moves')].originalDeal
                           = deals[moves'[Len(moves')].dealIndex + 1]
                     /\ moves'[Len(moves')].originalDeal.id = DraggedId
        /\ \A k \in 1..Len(moves) :
              (Pending(moves, k) /\ PatchResolved(k)) => deals' = deals
        /\ \A k \in 1..Len(moves) :
              (Pending(moves, k) /\ PatchRejected(k))
                  => /\ moves[k].dealIndex + 1 \in 1..Len(deals')
                     /\ deals'[moves[k].dealIndex + 1] = moves[k].originalDeal
                     /\ findIndex(deals', moves[k].dealId) = moves[k].dealIndex
      ]_vars

\* The second deal of a two-deal store has been moved and rolled back, and
\* is in second place with its title and its status from before the move.
C19_Witness ==
    /\ movesIssued = 1
    /\ succeeded = 0
    /\ moves = << >>
    /\ timers = 1
    /\ Len(deals) = 2
    /\ deals[2].title = TitleOf(deals[2].id)
    /\ error = << "Failed to move deal. Reverted to ", deals[2].status, "." >>
    /\ deals[1].status # deals[2].status

\* What a drop of the dragged card at the given destination does: whether a
\* remote call is issued, the store it leaves, and what the call sends.
Outcome(destination) ==
    LET dealId == parseInt(drag.draggableId)
    IN  IF Returns(destination)
        THEN [ issued |-> FALSE, store |-> deals, sent |-> << >> ]
        ELSE [ issued |-> TRUE,
               store |-> updatedDeals(deals, findIndex(deals, dealId),
                                      destination.droppableId),
               sent |-> << dealId, destination.droppableId >> ]

\* C20: for the dragged deal and a destination column, the store a drop
\* leaves, whether it issues a remote call, and the deal id and status it
\* sends are the same at every index of that column.
C20_IndexIgnored ==
    drag # NoDrag
        => \A d1, d2 \in Destinations \ {NoDestination} :
              ( /\ d1.droppableId = d2.droppableId
                /\ d1.index <= OthersInColumn(d1.droppableId)
                /\ d2.index <= OthersInColumn(d2.droppableId) )
                  => Outcome(d1) = Outcome(d2)

\* C21: once the board is torn down, the resolution of a call that was in
\* flight, success or failure, writes nothing to the store, sets no error
\* and invokes no notifier.
C21_TeardownSafety ==
    [][ (~mounted /\ PendingCount(moves') < PendingCount(moves))
            => /\ deals' = deals
               /\ error' = error
               /\ updating' = updating
               /\ notifications' = notifications ]_vars

\* C22: a confirmed move raises the stats refresh trigger by one, which runs
\* the commission widget's fetch once, and leaves the board's refresh trigger
\* alone, so the board issues no fetch of deals; a deal creation raises both
\* triggers by one (one fetch of stats, one fetch of deals).
C22_StatsWiring ==
    [][ /\ succeeded' # succeeded
              => /\ succeeded' = succeeded + 1
                 /\ statsRefreshTrigger' = statsRefreshTrigger + 1
                 /\ statsFetches' = statsFetches + 1
                 /\ refreshTrigger' = refreshTrigger
                 /\ fetchesIssued' = fetchesIssued
                 /\ fetching' = fetching
        /\ refreshTrigger' # refreshTrigger
              => /\ refreshTrigger' = refreshTrigger + 1
                 /\ statsRefreshTrigger' = statsRefreshTrigger + 1
                 /\ statsFetches' = statsFetches + 1
                 /\ fetchesIssued' = fetchesIssued + 1
        /\ statsFetches' - statsFetches
              = statsRefreshTrigger' - statsRefreshTrigger ]_vars

\* A move has been confirmed and a deal has been created: the stats trigger
\* is at two, the board's at one.
C22_Witness ==
    /\ succeeded = 1
    /\ refreshTrigger = 1
    /\ statsRefreshTrigger = 2
    /\ statsFetches = 3

\* C23: the remote applying each successful update when its call resolves,
\* and the board having made no fetch since its first load: whenever no call
\* is in flight, each deal of the store has the status the remote holds for
\* it, whatever moves were made and in whatever order their calls resolved.
C23_Convergence ==
    ( /\ remote # << >>
      /\ mounted
      /\ fetching = {}
      /\ PendingCount(moves) = 0 )
        => \A i \in 1..Len(deals) : deals[i].status = remote[deals[i].id]

\* C24: the "Updating deal..." indicator is shown (updating is not null)
\* exactly when at least one call of api.patch is in flight, also when
\* several moves overlap and their calls settle at different times.
C24_UpdatingIndicator ==
    (updating # Null) <=> (PendingCount(moves) > 0)

\* C25: whenever no fetch is in flight, the count last reported through
\* onDealsCountChange (the dashboard's "Active Deals") is the number of
\* deals in the store, whatever fetches, moves, commits and rollbacks have
\* happened.
C25_DealsCount ==
    fetching = {} => dealsCount = Len(deals)

\* C26: the timer a failed move starts clears only the error of that move.
\* The timers all wait 3000 ms, so the one that fires is the oldest pending;
\* the error shown, when it is a move's, is that of the latest failed move,
\* whose timer is the newest.  So a timer may clear the error only when the
\* error is a move's and no other timer is pending: never the banner of a
\* fetch failure, never the error of a later failed move.
C26_TimerClearsOwnError ==
    [][ (timers' < timers /\ error' # error)
            => (error # LoadError /\ timers = 1) ]_vars

\* C27: several calls of fetchDeals having been in flight at once, once all
\* have come back and no move has been made, the store and the count
\* reported to the dashboard are those of the response of the latest-issued
\* call that resolved, in whatever order the responses arrived.
C27_LatestFetchWins ==
    (fetching = {} /\ newestResponse.id > 0)
        => /\ deals = newestResponse.data
           /\ dealsCount = Len(newestResponse.data)

\* C28: a drag-end with no destination (the card dropped outside every
\* column) changes nothing but the drag itself: the store, the error and the
\* updating indicator stay, no remote call is issued and the notifier is not
\* invoked.
C28_NoDestination ==
    [][ (drag # NoDrag /\ handleDragEnd(NoDestination))
            => /\ UNCHANGED << deals, error, updating, moves, movesIssued,
                               timers, notifications, statsRefreshTrigger >>
               /\ lastDrop' = "noDestination" ]_vars

\* A card has been dropped outside every column while a move awaited its
\* call and an error was shown.
C28_Witness ==
    /\ drag = NoDrag
    /\ lastDrop = "noDestination"
    /\ PendingCount(moves) > 0
    /\ updating # Null
    /\ error # Null

\* The status the page shows for commission id: none when it has no row.
ShownStatus(cs, id) ==
    IF \E i \in 1..Len(cs) : cs[i].id = id
    THEN (CHOOSE c \in { cs[i] : i \in 1..Len(cs) } : c.id = id).status
    ELSE "none"

\* C29: a commission shown as pending becomes paid only once the remote pay
\* call for it has succeeded (the remote holds it as paid); a rejected pay
\* call leaves the list as it is and sets an error; no step changes a
\* commission shown as paid back to pending; and when a run of handleApprove
\* ends, either way, approvingId is null.
C29_ConfirmThenApply ==
    [][ /\ \A id \in CommissionIds :
              ( /\ ShownStatus(commissions, id) = "pending"
                /\ ShownStatus(commissions', id) = "paid" )
                  => remoteCommissions[id] = "paid"
        /\ \A a \in 1..Len(approvals) :
              (approvals[a].call = "pay" /\ ApproveRejected(a))
                  => /\ commissions' = commissions
                     /\ commissionsError' = ApproveError
        /\ \A id \in CommissionIds :
              ShownStatus(commissions, id) = "paid"
                  => ShownStatus(commissions', id) = "paid"
        /\ Len(approvals') < Len(approvals) => approvingId' = Null ]_vars

====
